---- MODULE Spec2Model ----
(***************************************************************************)
(* The authorization-aware data access layer of workflowpro-backend        *)
(* (src/crud.py) over the Project, TeamMember and Task tables.             *)
(*                                                                         *)
(* Spec      every handler of the project/team surface runs to completion  *)
(*           (one request after the other).                                *)
(* TaskSpec  every handler of the task surface runs to completion.         *)
(* MixSpec   the handlers of both surfaces and the system overview, one    *)
(*           request after the other, for two users.                       *)
(* AuthSpec  register_user and login_user of src/main.py over the User     *)
(*           table.                                                        *)
(* ConcSpec  create_project and add_team_member interleaved at the         *)
(*           granularity of their database statements, with crashes.       *)
(* RaceSpec  those statements of two users interleaved with whole          *)
(*           delete_project, remove_team_member and get_project requests.  *)
(* ReportSpec the analytics queries of src/crud.py over the stores the     *)
(*           handlers leave.                                               *)
(***************************************************************************)
EXTENDS Integers, FiniteSets, Sequences, Bags, TLC

\* ------------------------------------------------------------------ bounds
Users == {1, 2, 3}
MaxProjects == 1
MaxTasks == 2
MaxReqs == 2
MaxReportTasks == 3

ProjectIds == 1..MaxProjects
TaskIds == 1..MaxTasks
Reqs == 1..MaxReqs

\* ------------------------------------------------------- program constants
\* Optional[int] = None of the payloads; row ids start at 1.
NoId == 0
\* TeamMember.role is a free string; these are the conventional values.
Roles == {"owner", "admin", "member"}
\* the roles that may manage a team: TeamMember.role.in_(["owner", "admin"])
ManagerRoles == {"owner", "admin"}
DefaultProjectStatus == "planning"
TaskStatuses == {"pending", "in_progress", "completed", "cancelled"}
TaskPriorities == {"low", "medium", "high", "urgent"}
DefaultTaskStatus == "pending"
DefaultTaskPriority == "medium"

\* the payloads the requests are drawn from
EmptyPatch == [f \in {} |-> ""]
ProjectNames == {"Alpha"}
ProjectPatches == {EmptyPatch, [name |-> "Beta"]}
\* the role the interleaved add_team_member requests name
ConcRoles == {"member"}
TaskPayloads ==
    {[title |-> "t1", status |-> DefaultTaskStatus, priority |-> DefaultTaskPriority,
      project_id |-> NoId],
     [title |-> "t1", status |-> DefaultTaskStatus, priority |-> DefaultTaskPriority,
      project_id |-> NoId, assigned_user_id |-> 2]}
TaskPatches ==
    {EmptyPatch, [status |-> "completed"], [title |-> "t2", project_id |-> 1]}
\* the request bodies of the update calls: the patches, and bodies that also name a
\* field the schema does not declare
ProjectBodies == ProjectPatches \cup {[owner_id |-> 2]}
TaskBodies == TaskPatches \cup {[assigned_user_id |-> 2]}
\* the requests that mix the project, team and task surfaces: two users, a task
\* filed under project 1, the empty patch for a project and one patch for a task
MixUsers == {1, 2}
MixTaskPayloads ==
    {[title |-> "t1", status |-> DefaultTaskStatus, priority |-> DefaultTaskPriority,
      project_id |-> 1]}
MixProjectBodies == {EmptyPatch}
MixTaskBodies == {[status |-> "completed"]}
\* the UserCreate and UserLogin bodies of the register and login requests
Emails == {"a@x.com", "b@x.com"}
Usernames == {"ann", "bob"}
Passwords == {"pw1", "pw2"}
UserCreates == [email : Emails, username : Usernames, password : Passwords]
UserLogins == [email : Emails, password : Passwords]
\* the stores the reports are asked of: two registered users or none, project
\* "Alpha" of user 1 or none, up to MaxReportTasks tasks of these values
ReportStatuses == {"pending", "completed"}
ReportPriorities == {"medium", "urgent"}
\* the fields ProjectUpdate and TaskUpdate declare
ProjectUpdateFields == {"name", "description", "status"}
TaskUpdateFields == {"title", "description", "status", "priority", "project_id", "due_date"}

VARIABLES
    projects,         \* Project table: id -> [owner_id, name, status]
    team_members,     \* TeamMember table: a bag of [project_id, user_id, role]
    tasks,            \* Task table: id -> [assigned_user_id, title, status, priority, project_id]
    next_project_id,  \* one more than the largest Project.id handed out so far
    next_task_id,     \* one more than the largest Task.id handed out so far
    sessions,         \* ConcSpec: request slot -> the handler's position and locals
    users,            \* User table: id -> [email, username, hashed_password, is_active]
    last              \* the last completed call: arguments, answer, tables before it

vars ==
    <<projects, team_members, tasks, next_project_id, next_task_id, sessions, users, last>>

Idle == [pc |-> "idle", actor |-> NoId, project_id |-> NoId, user_id |-> NoId, role |-> ""]

\* the tables as a call finds them
Tables ==
    [projects |-> projects, team_members |-> team_members, tasks |-> tasks, users |-> users]

\* what a call returned: result is "ok" / "None" / "True" / "False", rows the ids of
\* the rows handed back, pre the tables before the call
Ret(op, actor, id, target, role, result, rows) ==
    [op |-> op, actor |-> actor, id |-> id, target |-> target, role |-> role,
     result |-> result, rows |-> rows, pre |-> Tables]

\* no call is being answered
NoCall ==
    [op |-> "none", actor |-> NoId, id |-> NoId, target |-> NoId, role |-> "",
     result |-> "", rows |-> {}, pre |-> <<>>]

Init ==
    /\ projects = [i \in {} |-> [owner_id |-> NoId, name |-> "", status |-> ""]]
    /\ team_members = EmptyBag
    /\ tasks = [i \in {} |-> NoId]
    /\ next_project_id = 1
    /\ next_task_id = 1
    /\ sessions = [r \in Reqs |-> Idle]
    /\ users = [i \in {} |-> NoId]
    /\ last = NoCall

\* ---------------------------------------------------------------- queries
TeamMember(project_id, user_id, role) ==
    [project_id |-> project_id, user_id |-> user_id, role |-> role]

\* db.query(TeamMember).filter(project_id == .., user_id == ..) over a table
MemberRowsOf(table, project_id, user_id) ==
    {m \in BagToSet(table) : m.project_id = project_id /\ m.user_id = user_id}

MemberRows(project_id, user_id) == MemberRowsOf(team_members, project_id, user_id)

\* db.query(TeamMember).filter(project_id == ..).all()
TeamRows(project_id) ==
    {m \in BagToSet(team_members) : m.project_id = project_id}

\* requester_membership without the role filter: any row of the requester counts
requester_membership_any_role(project_id, requester_user_id) ==
    MemberRows(project_id, requester_user_id)

\* the requester_membership query of add_team_member / remove_team_member
requester_membership(project_id, requester_user_id) ==
    {m \in MemberRows(project_id, requester_user_id) : m.role \in ManagerRoles}

\* the permission block shared by add_team_member and remove_team_member
may_manage_team(project_id, requester_user_id) ==
    /\ project_id \in DOMAIN projects
    /\ \/ projects[project_id].owner_id = requester_user_id
       \/ requester_membership(project_id, requester_user_id) # {}

\* the existing_member query of add_team_member
existing_member(project_id, user_id) == MemberRows(project_id, user_id)

\* get_project without the TeamMember query: only the owner reads
get_project_owner_only(project_id, user_id) ==
    IF project_id \notin DOMAIN projects THEN {}
    ELSE IF projects[project_id].owner_id = user_id THEN {project_id}
    ELSE {}

\* crud.get_project: the project's id when the user may read it, else nothing
get_project(project_id, user_id) ==
    IF project_id \notin DOMAIN projects THEN {}
    ELSE IF projects[project_id].owner_id = user_id THEN {project_id}
    ELSE IF MemberRows(project_id, user_id) # {} THEN {project_id}
    ELSE {}

\* crud.get_project_with_team: the team rows of the detail, or nothing
get_project_with_team(project_id, user_id) ==
    IF get_project(project_id, user_id) = {} THEN [result |-> "None", rows |-> {}]
    ELSE [result |-> "ok", rows |-> TeamRows(project_id)]

\* crud.get_team_members
get_team_members(project_id, user_id) ==
    IF get_project(project_id, user_id) = {} THEN [result |-> "None", rows |-> {}]
    ELSE [result |-> "ok", rows |-> TeamRows(project_id)]

\* db.query(Project).filter(Project.owner_id == user_id): a bag of project ids
owned_projects(user_id) ==
    SetToBag({p \in DOMAIN projects : projects[p].owner_id = user_id})

\* db.query(Project).join(TeamMember).filter(TeamMember.user_id == user_id): the join
\* yields a project once for every TeamMember row of the user
team_projects(user_id) ==
    [p \in {q \in DOMAIN projects : MemberRows(q, user_id) # {}} |->
        BagCardinality([m \in MemberRows(p, user_id) |-> team_members[m]])]

\* UNION ALL: the rows of both queries, duplicates kept
query_union_all(a, b) == a (+) b

\* Query.union: SQL UNION, equal rows collapse into one
query_union(a, b) == SetToBag(BagToSet(a (+) b))

\* crud.get_projects with the default skip and limit
get_projects(user_id) ==
    query_union(owned_projects(user_id), team_projects(user_id))

\* get_task also asking for read access to the task's project
get_task_of_project_readers(task_id, user_id) ==
    IF /\ task_id \in DOMAIN tasks
       /\ tasks[task_id].assigned_user_id = user_id
       /\ \/ tasks[task_id].project_id = NoId
          \/ get_project(tasks[task_id].project_id, user_id) # {}
    THEN {task_id} ELSE {}

\* crud.get_task: the task's id when it is the user's, else nothing
get_task(task_id, user_id) ==
    IF task_id \in DOMAIN tasks /\ tasks[task_id].assigned_user_id = user_id
    THEN {task_id} ELSE {}

\* crud.get_tasks with the default skip and limit
get_tasks(user_id) ==
    {t \in DOMAIN tasks : tasks[t].assigned_user_id = user_id}

\* model_dump() without exclude_unset: the fields the body left out come back as None
ApplyPatch_without_exclude_unset(row, patch) ==
    [f \in DOMAIN row |->
        IF f \in DOMAIN patch THEN patch[f]
        ELSE IF f \in {"assigned_user_id", "owner_id"} THEN row[f]
        ELSE IF f = "project_id" THEN NoId
        ELSE ""]

\* round(x, 2) of x = num / den: the hundredths of x, the nearest whole number of them
\* (no x of the rates below lies halfway between two hundredths for den < 32)
round2(num, den) == (2 * 100 * num + den) \div (2 * den)

\* the rate cut off after two decimals instead of rounded
completion_rate_truncated(completed_tasks, total_tasks) ==
    IF total_tasks > 0 THEN (100 * 100 * completed_tasks) \div total_tasks ELSE 0

\* round((completed_tasks / total_tasks * 100) if total_tasks > 0 else 0, 2),
\* in hundredths of a percent
completion_rate(completed_tasks, total_tasks) ==
    IF total_tasks > 0 THEN round2(completed_tasks * 100, total_tasks) ELSE 0

\* db.query(Task).filter(..).count() for the filters of the reports
count_status(ts, status) == Cardinality({t \in ts : tasks[t].status = status})
tasks_of_user(user_id) == {t \in DOMAIN tasks : tasks[t].assigned_user_id = user_id}
tasks_of_project(project_id) == {t \in DOMAIN tasks : tasks[t].project_id = project_id}

\* crud.get_system_overview: the counts over the whole tables
get_system_overview ==
    [total_users |-> Cardinality(DOMAIN users),
     total_projects |-> Cardinality(DOMAIN projects),
     total_tasks |-> Cardinality(DOMAIN tasks),
     completed_tasks |-> count_status(DOMAIN tasks, "completed"),
     active_tasks |->
         Cardinality({t \in DOMAIN tasks : tasks[t].status \in {"pending", "in_progress"}}),
     completion_rate |->
         completion_rate(count_status(DOMAIN tasks, "completed"), Cardinality(DOMAIN tasks))]

\* the entry of one user or one project in the statistics
task_statistics(ts) ==
    [total_tasks |-> Cardinality(ts),
     completed_tasks |-> count_status(ts, "completed"),
     in_progress_tasks |-> count_status(ts, "in_progress"),
     pending_tasks |-> count_status(ts, "pending"),
     cancelled_tasks |-> count_status(ts, "cancelled"),
     completion_rate |-> completion_rate(count_status(ts, "completed"), Cardinality(ts))]

\* crud.get_user_task_statistics: one entry for every row of the User table
get_user_task_statistics ==
    [u \in DOMAIN users |-> task_statistics(tasks_of_user(u))]

\* crud.get_project_task_statistics: one entry for every row of the Project table
get_project_task_statistics ==
    [p \in DOMAIN projects |->
        task_statistics(tasks_of_project(p)) @@
            [team_size |-> BagCardinality([m \in TeamRows(p) |-> team_members[m]])]]

\* the lists the two distributions run through
priorities == <<"low", "medium", "high", "urgent">>
statuses == <<"pending", "in_progress", "completed", "cancelled">>

\* a distribution by GROUP BY: a value no task has gets no entry
get_task_priority_distribution_grouped ==
    SelectSeq([i \in 1..Len(priorities) |->
                  [priority |-> priorities[i],
                   count |-> Cardinality({t \in DOMAIN tasks :
                                             tasks[t].priority = priorities[i]})]],
              LAMBDA e : e.count > 0)

\* crud.get_task_priority_distribution
get_task_priority_distribution ==
    [i \in 1..Len(priorities) |->
        [priority |-> priorities[i],
         count |-> Cardinality({t \in DOMAIN tasks : tasks[t].priority = priorities[i]})]]

\* crud.get_task_status_distribution
get_task_status_distribution ==
    [i \in 1..Len(statuses) |->
        [status |-> statuses[i], count |-> count_status(DOMAIN tasks, statuses[i])]]

\* setattr(row, field, value) for every field of model_dump(exclude_unset=True)
ApplyPatch(row, patch) ==
    [f \in DOMAIN row |-> IF f \in DOMAIN patch THEN patch[f] ELSE row[f]]

\* a ProjectUpdate that also declares owner_id
ProjectUpdate_with_owner_id(body) == body

\* schemas.ProjectUpdate built from a request body: the declared fields that were set
ProjectUpdate(body) ==
    [f \in DOMAIN body \cap ProjectUpdateFields |-> body[f]]

\* a TaskUpdate that also declares assigned_user_id
TaskUpdate_with_assigned_user_id(body) == body

\* schemas.TaskUpdate built from a request body: the declared fields that were set
TaskUpdate(body) ==
    [f \in DOMAIN body \cap TaskUpdateFields |-> body[f]]

\* the largest id in use, NoId when the table is empty
MaxId(ids) == IF ids = {} THEN NoId ELSE CHOOSE i \in ids : \A j \in ids : j <= i

\* the ids the store may give a new row: the engine's counter, never handed out before
\* (MySQL AUTO_INCREMENT), or one more than the largest id in the table (the rowid of
\* SQLite, the default engine), which is the id of a deleted row when that row was last
NewIds(ids, counter) == {counter, MaxId(ids) + 1}

\* the TeamMember table holds no uniqueness constraint on (project_id, user_id)
StorageEnforcesUniqueMembership == FALSE

\* db.add(row); db.commit() on the TeamMember table
InsertMember(table, row) ==
    IF StorageEnforcesUniqueMembership /\ MemberRowsOf(table, row.project_id, row.user_id) # {}
    THEN table
    ELSE table (+) SetToBag({row})

\* the TeamMember rows left when a project row is deleted
MembersAfterProjectDelete(project_id) ==
    [m \in {x \in BagToSet(team_members) : x.project_id # project_id} |-> team_members[m]]

\* the Task tables that may be left when a project row is deleted: the tasks filed
\* under it are kept as they are, are kept with their project reference set to
\* None, or are deleted with it
TasksAfterProjectDelete(project_id) ==
    {tasks,
     [t \in DOMAIN tasks |->
         IF tasks[t].project_id = project_id
         THEN [tasks[t] EXCEPT !.project_id = NoId] ELSE tasks[t]],
     [t \in {x \in DOMAIN tasks : tasks[x].project_id # project_id} |-> tasks[t]]}

\* ------------------------------------------------- project / team handlers
create_project(user_id, name) ==
    /\ \E id \in NewIds(DOMAIN projects, next_project_id) :
          /\ id <= MaxProjects
          /\ projects' = projects @@
                 (id :> [owner_id |-> user_id, name |-> name,
                         status |-> DefaultProjectStatus])
          /\ team_members' = InsertMember(team_members, TeamMember(id, user_id, "owner"))
          /\ next_project_id' = IF id = next_project_id THEN id + 1 ELSE next_project_id
          /\ last' = Ret("create_project", user_id, id, NoId, "", "ok", {id})
    /\ UNCHANGED <<tasks, next_task_id, sessions, users>>

\* update_project filtering on read access instead of Project.owner_id == user_id
update_project_any_reader(project_id, patch, user_id) ==
    /\ IF get_project(project_id, user_id) # {}
       THEN /\ projects' = [projects EXCEPT ![project_id] = ApplyPatch(@, patch)]
            /\ last' = Ret("update_project", user_id, project_id, NoId, "", "ok", {project_id})
       ELSE /\ projects' = projects
            /\ last' = Ret("update_project", user_id, project_id, NoId, "", "None", {})
    /\ UNCHANGED <<team_members, tasks, next_project_id, next_task_id, sessions, users>>

update_project(project_id, patch, user_id) ==
    /\ IF project_id \in DOMAIN projects /\ projects[project_id].owner_id = user_id
       THEN /\ projects' = [projects EXCEPT ![project_id] = ApplyPatch(@, patch)]
            /\ last' = Ret("update_project", user_id, project_id, NoId, "", "ok", {project_id})
       ELSE /\ projects' = projects
            /\ last' = Ret("update_project", user_id, project_id, NoId, "", "None", {})
    /\ UNCHANGED <<team_members, tasks, next_project_id, next_task_id, sessions, users>>

delete_project(project_id, user_id) ==
    /\ IF project_id \in DOMAIN projects /\ projects[project_id].owner_id = user_id
       THEN /\ projects' = [p \in DOMAIN projects \ {project_id} |-> projects[p]]
            /\ team_members' = MembersAfterProjectDelete(project_id)
            /\ tasks' \in TasksAfterProjectDelete(project_id)
            /\ last' = Ret("delete_project", user_id, project_id, NoId, "", "True", {})
       ELSE /\ UNCHANGED <<projects, team_members, tasks>>
            /\ last' = Ret("delete_project", user_id, project_id, NoId, "", "False", {})
    /\ UNCHANGED <<next_project_id, next_task_id, sessions, users>>

\* add_team_member without the existing_member test
add_team_member_no_existing_check(project_id, user_id, role, requester_user_id) ==
    /\ IF ~may_manage_team(project_id, requester_user_id)
       THEN /\ team_members' = team_members
            /\ last' = Ret("add_team_member", requester_user_id, project_id, user_id, role,
                           "None", {})
       ELSE /\ team_members' = InsertMember(team_members, TeamMember(project_id, user_id, role))
            /\ last' = Ret("add_team_member", requester_user_id, project_id, user_id, role,
                           "ok", {user_id})
    /\ UNCHANGED <<projects, tasks, next_project_id, next_task_id, sessions, users>>

add_team_member(project_id, user_id, role, requester_user_id) ==
    /\ IF ~may_manage_team(project_id, requester_user_id)
       THEN /\ team_members' = team_members
            /\ last' = Ret("add_team_member", requester_user_id, project_id, user_id, role,
                           "None", {})
       ELSE IF existing_member(project_id, user_id) # {}
       THEN /\ team_members' = team_members
            /\ last' = Ret("add_team_member", requester_user_id, project_id, user_id, role,
                           "None", {})
       ELSE /\ team_members' = InsertMember(team_members, TeamMember(project_id, user_id, role))
            /\ last' = Ret("add_team_member", requester_user_id, project_id, user_id, role,
                           "ok", {user_id})
    /\ UNCHANGED <<projects, tasks, next_project_id, next_task_id, sessions, users>>

\* remove_team_member without the "cannot remove project owner" test
remove_team_member_no_owner_guard(project_id, user_id, requester_user_id) ==
    /\ IF ~may_manage_team(project_id, requester_user_id)
       THEN /\ team_members' = team_members
            /\ last' = Ret("remove_team_member", requester_user_id, project_id, user_id, "",
                           "False", {})
       ELSE IF MemberRows(project_id, user_id) = {}
       THEN /\ team_members' = team_members
            /\ last' = Ret("remove_team_member", requester_user_id, project_id, user_id, "",
                           "False", {})
       ELSE /\ \E m \in MemberRows(project_id, user_id) :
                  team_members' = team_members (-) SetToBag({m})
            /\ last' = Ret("remove_team_member", requester_user_id, project_id, user_id, "",
                           "True", {})
    /\ UNCHANGED <<projects, tasks, next_project_id, next_task_id, sessions, users>>

remove_team_member(project_id, user_id, requester_user_id) ==
    /\ IF ~may_manage_team(project_id, requester_user_id)
       THEN /\ team_members' = team_members
            /\ last' = Ret("remove_team_member", requester_user_id, project_id, user_id, "",
                           "False", {})
       ELSE IF projects[project_id].owner_id = user_id
       THEN /\ team_members' = team_members
            /\ last' = Ret("remove_team_member", requester_user_id, project_id, user_id, "",
                           "False", {})
       ELSE IF MemberRows(project_id, user_id) = {}
       THEN /\ team_members' = team_members
            /\ last' = Ret("remove_team_member", requester_user_id, project_id, user_id, "",
                           "False", {})
       ELSE /\ \E m \in MemberRows(project_id, user_id) :
                  team_members' = team_members (-) SetToBag({m})
            /\ last' = Ret("remove_team_member", requester_user_id, project_id, user_id, "",
                           "True", {})
    /\ UNCHANGED <<projects, tasks, next_project_id, next_task_id, sessions, users>>

\* the read endpoints: nothing is written, the answer is recorded
read_project(project_id, user_id) ==
    /\ last' = Ret("get_project", user_id, project_id, NoId, "",
                   IF get_project(project_id, user_id) = {} THEN "None" ELSE "ok",
                   get_project(project_id, user_id))
    /\ UNCHANGED <<projects, team_members, tasks, next_project_id, next_task_id, sessions, users>>

read_project_with_team(project_id, user_id) ==
    /\ last' = Ret("get_project_with_team", user_id, project_id, NoId, "",
                   get_project_with_team(project_id, user_id).result,
                   get_project_with_team(project_id, user_id).rows)
    /\ UNCHANGED <<projects, team_members, tasks, next_project_id, next_task_id, sessions, users>>

read_team_members(project_id, user_id) ==
    /\ last' = Ret("get_team_members", user_id, project_id, NoId, "",
                   get_team_members(project_id, user_id).result,
                   get_team_members(project_id, user_id).rows)
    /\ UNCHANGED <<projects, team_members, tasks, next_project_id, next_task_id, sessions, users>>

read_projects(user_id) ==
    /\ last' = Ret("get_projects", user_id, NoId, NoId, "", "ok", get_projects(user_id))
    /\ UNCHANGED <<projects, team_members, tasks, next_project_id, next_task_id, sessions, users>>

\* ------------------------------------------------------------ task handlers
create_task(task, user_id) ==
    /\ \E id \in NewIds(DOMAIN tasks, next_task_id) :
          /\ id <= MaxTasks
          /\ tasks' = tasks @@
                 (id :> [title |-> task.title, status |-> task.status,
                         priority |-> task.priority, project_id |-> task.project_id,
                         assigned_user_id |-> user_id])
          /\ next_task_id' = IF id = next_task_id THEN id + 1 ELSE next_task_id
          /\ last' = Ret("create_task", user_id, id, NoId, "", "ok", {id})
    /\ UNCHANGED <<projects, team_members, next_project_id, sessions, users>>

\* update_task telling another user's task from a missing one
update_task_forbidden(task_id, task_update, user_id) ==
    /\ IF get_task(task_id, user_id) = {}
       THEN /\ tasks' = tasks
            /\ last' = Ret("update_task", user_id, task_id, NoId, "",
                           IF task_id \in DOMAIN tasks THEN "Forbidden" ELSE "None", {})
                        @@ [patch |-> task_update]
       ELSE /\ tasks' = [tasks EXCEPT ![task_id] = ApplyPatch(@, task_update)]
            /\ last' = Ret("update_task", user_id, task_id, NoId, "", "ok", {task_id})
                        @@ [patch |-> task_update]
    /\ UNCHANGED <<projects, team_members, next_project_id, next_task_id, sessions, users>>

\* update_task filtering on Task.id alone
update_task_any_user(task_id, task_update, user_id) ==
    /\ IF task_id \notin DOMAIN tasks
       THEN /\ tasks' = tasks
            /\ last' = Ret("update_task", user_id, task_id, NoId, "", "None", {})
                        @@ [patch |-> task_update]
       ELSE /\ tasks' = [tasks EXCEPT ![task_id] = ApplyPatch(@, task_update)]
            /\ last' = Ret("update_task", user_id, task_id, NoId, "", "ok", {task_id})
                        @@ [patch |-> task_update]
    /\ UNCHANGED <<projects, team_members, next_project_id, next_task_id, sessions, users>>

update_task(task_id, task_update, user_id) ==
    /\ IF get_task(task_id, user_id) = {}
       THEN /\ tasks' = tasks
            /\ last' = Ret("update_task", user_id, task_id, NoId, "", "None", {})
                        @@ [patch |-> task_update]
       ELSE /\ tasks' = [tasks EXCEPT ![task_id] = ApplyPatch(@, task_update)]
            /\ last' = Ret("update_task", user_id, task_id, NoId, "", "ok", {task_id})
                        @@ [patch |-> task_update]
    /\ UNCHANGED <<projects, team_members, next_project_id, next_task_id, sessions, users>>

\* delete_task without db.commit(): the session closes and the row is still there
delete_task_without_commit(task_id, user_id) ==
    /\ tasks' = tasks
    /\ last' = Ret("delete_task", user_id, task_id, NoId, "",
                   IF get_task(task_id, user_id) = {} THEN "False" ELSE "True", {})
    /\ UNCHANGED <<projects, team_members, next_project_id, next_task_id, sessions, users>>

\* delete_task deleting the row before it looks at the assignee
delete_task_before_check(task_id, user_id) ==
    /\ tasks' = [t \in DOMAIN tasks \ {task_id} |-> tasks[t]]
    /\ last' = Ret("delete_task", user_id, task_id, NoId, "",
                   IF get_task(task_id, user_id) = {} THEN "False" ELSE "True", {})
    /\ UNCHANGED <<projects, team_members, next_project_id, next_task_id, sessions, users>>

\* delete_task filtering on Task.id alone
delete_task_any_user(task_id, user_id) ==
    /\ IF task_id \notin DOMAIN tasks
       THEN /\ tasks' = tasks
            /\ last' = Ret("delete_task", user_id, task_id, NoId, "", "False", {})
       ELSE /\ tasks' = [t \in DOMAIN tasks \ {task_id} |-> tasks[t]]
            /\ last' = Ret("delete_task", user_id, task_id, NoId, "", "True", {})
    /\ UNCHANGED <<projects, team_members, next_project_id, next_task_id, sessions, users>>

delete_task(task_id, user_id) ==
    /\ IF get_task(task_id, user_id) = {}
       THEN /\ tasks' = tasks
            /\ last' = Ret("delete_task", user_id, task_id, NoId, "", "False", {})
       ELSE /\ tasks' = [t \in DOMAIN tasks \ {task_id} |-> tasks[t]]
            /\ last' = Ret("delete_task", user_id, task_id, NoId, "", "True", {})
    /\ UNCHANGED <<projects, team_members, next_project_id, next_task_id, sessions, users>>

read_task(task_id, user_id) ==
    /\ last' = Ret("get_task", user_id, task_id, NoId, "",
                   IF get_task(task_id, user_id) = {} THEN "None" ELSE "ok",
                   get_task(task_id, user_id))
    /\ UNCHANGED <<projects, team_members, tasks, next_project_id, next_task_id, sessions, users>>

read_tasks(user_id) ==
    /\ last' = Ret("get_tasks", user_id, NoId, NoId, "", "ok", get_tasks(user_id))
    /\ UNCHANGED <<projects, team_members, tasks, next_project_id, next_task_id, sessions, users>>

\* ------------------------------------------------------- register and login
\* auth.get_password_hash and auth.verify_password: a stored hash matches the
\* password it was made from and no other
get_password_hash(password) == <<"hash", password>>
verify_password(plain_password, hashed_password) ==
    hashed_password = get_password_hash(plain_password)

\* the is_active a new User row is given
DefaultIsActive == TRUE

\* db.query(User).filter(User.email == ..) and .filter(User.username == ..)
users_by_email(email) == {u \in DOMAIN users : users[u].email = email}
users_by_username(username) == {u \in DOMAIN users : users[u].username = username}

\* what register_user and login_user answered to a body
AuthRet(op, body, id, status_code, result) ==
    Ret(op, NoId, id, NoId, "", result, {}) @@ [body |-> body, status_code |-> status_code]

\* register_user without the second query
register_user_without_username_check(user) ==
    /\ IF users_by_email(user.email) # {}
       THEN /\ users' = users
            /\ last' = AuthRet("register_user", user, NoId, 400, "Email already registered")
       ELSE \E id \in {MaxId(DOMAIN users) + 1} :
               /\ users' = users @@
                      (id :> [email |-> user.email, username |-> user.username,
                              hashed_password |-> get_password_hash(user.password),
                              is_active |-> DefaultIsActive])
               /\ last' = AuthRet("register_user", user, id, 200, "ok")
    /\ UNCHANGED <<projects, team_members, tasks, next_project_id, next_task_id, sessions>>

register_user(user) ==
    /\ IF users_by_email(user.email) # {}
       THEN /\ users' = users
            /\ last' = AuthRet("register_user", user, NoId, 400, "Email already registered")
       ELSE IF users_by_username(user.username) # {}
       THEN /\ users' = users
            /\ last' = AuthRet("register_user", user, NoId, 400, "Username already taken")
       ELSE \E id \in {MaxId(DOMAIN users) + 1} :
               /\ users' = users @@
                      (id :> [email |-> user.email, username |-> user.username,
                              hashed_password |-> get_password_hash(user.password),
                              is_active |-> DefaultIsActive])
               /\ last' = AuthRet("register_user", user, id, 200, "ok")
    /\ UNCHANGED <<projects, team_members, tasks, next_project_id, next_task_id, sessions>>

\* login_user without the is_active test
login_user_without_active_check(user) ==
    /\ IF \/ users_by_email(user.email) = {}
          \/ \E u \in users_by_email(user.email) :
                 ~verify_password(user.password, users[u].hashed_password)
       THEN last' = AuthRet("login_user", user, NoId, 401, "Incorrect email or password")
       ELSE \E u \in users_by_email(user.email) :
               last' = AuthRet("login_user", user, u, 200, "ok")
    /\ UNCHANGED <<projects, team_members, tasks, next_project_id, next_task_id, sessions, users>>

\* login_user: .first() of the email query is the one row the unique email admits
login_user(user) ==
    /\ IF \/ users_by_email(user.email) = {}
          \/ \E u \in users_by_email(user.email) :
                 ~verify_password(user.password, users[u].hashed_password)
       THEN last' = AuthRet("login_user", user, NoId, 401, "Incorrect email or password")
       ELSE \E u \in users_by_email(user.email) :
               IF ~users[u].is_active
               THEN last' = AuthRet("login_user", user, NoId, 400, "Inactive user")
               ELSE last' = AuthRet("login_user", user, u, 200, "ok")
    /\ UNCHANGED <<projects, team_members, tasks, next_project_id, next_task_id, sessions, users>>

\* an account is switched off: is_active is written by no handler of src/
deactivate_user(user_id) ==
    /\ user_id \in DOMAIN users
    /\ users[user_id].is_active
    /\ users' = [users EXCEPT ![user_id].is_active = FALSE]
    /\ UNCHANGED <<projects, team_members, tasks, next_project_id, next_task_id, sessions, last>>

\* ------------------------------------------------------------------ reports
read_system_overview ==
    /\ last' = Ret("get_system_overview", NoId, NoId, NoId, "", "ok", get_system_overview)
    /\ UNCHANGED <<projects, team_members, tasks, next_project_id, next_task_id, sessions, users>>

read_user_task_statistics ==
    /\ last' = Ret("get_user_task_statistics", NoId, NoId, NoId, "", "ok",
                   get_user_task_statistics)
    /\ UNCHANGED <<projects, team_members, tasks, next_project_id, next_task_id, sessions, users>>

read_project_task_statistics ==
    /\ last' = Ret("get_project_task_statistics", NoId, NoId, NoId, "", "ok",
                   get_project_task_statistics)
    /\ UNCHANGED <<projects, team_members, tasks, next_project_id, next_task_id, sessions, users>>

read_task_priority_distribution ==
    /\ last' = Ret("get_task_priority_distribution", NoId, NoId, NoId, "", "ok",
                   get_task_priority_distribution)
    /\ UNCHANGED <<projects, team_members, tasks, next_project_id, next_task_id, sessions, users>>

read_task_status_distribution ==
    /\ last' = Ret("get_task_status_distribution", NoId, NoId, NoId, "", "ok",
                   get_task_status_distribution)
    /\ UNCHANGED <<projects, team_members, tasks, next_project_id, next_task_id, sessions, users>>

\* ------------------------------------- the handlers statement by statement
\* sessions[r] is one request in flight: pc is the statement it runs next, the other
\* fields are the handler's arguments and locals.
InFlight(pc, actor, project_id, user_id, role) ==
    [pc |-> pc, actor |-> actor, project_id |-> project_id, user_id |-> user_id, role |-> role]

\* create_project: db.add(db_project); db.commit(); db.refresh(db_project)
cp_insert_project(r, user_id, name) ==
    /\ sessions[r].pc = "idle"
    /\ \E id \in NewIds(DOMAIN projects, next_project_id) :
          /\ id <= MaxProjects
          /\ projects' = projects @@
                 (id :> [owner_id |-> user_id, name |-> name,
                         status |-> DefaultProjectStatus])
          /\ next_project_id' = IF id = next_project_id THEN id + 1 ELSE next_project_id
          /\ sessions' = [sessions EXCEPT
                 ![r] = InFlight("cp_member", user_id, id, user_id, "owner")]
    /\ UNCHANGED <<team_members, tasks, next_task_id, users, last>>

\* create_project: db.add(team_member); db.commit(); return db_project
cp_insert_member(r) ==
    /\ sessions[r].pc = "cp_member"
    /\ team_members' = InsertMember(team_members,
           TeamMember(sessions[r].project_id, sessions[r].user_id, "owner"))
    /\ sessions' = [sessions EXCEPT ![r] = Idle]
    /\ UNCHANGED <<projects, tasks, next_project_id, next_task_id, users, last>>

\* add_team_member: the project query and the owner test
at_read_project(r, project_id, user_id, role, requester_user_id) ==
    /\ sessions[r].pc = "idle"
    /\ sessions' = [sessions EXCEPT ![r] =
           IF project_id \notin DOMAIN projects THEN Idle
           ELSE IF projects[project_id].owner_id # requester_user_id
           THEN InFlight("at_requester", requester_user_id, project_id, user_id, role)
           ELSE InFlight("at_existing", requester_user_id, project_id, user_id, role)]
    /\ UNCHANGED <<projects, team_members, tasks, next_project_id, next_task_id, users, last>>

\* add_team_member: the requester_membership query
at_read_requester(r) ==
    /\ sessions[r].pc = "at_requester"
    /\ sessions' = [sessions EXCEPT ![r] =
           IF requester_membership(sessions[r].project_id, sessions[r].actor) = {} THEN Idle
           ELSE [@ EXCEPT !.pc = "at_existing"]]
    /\ UNCHANGED <<projects, team_members, tasks, next_project_id, next_task_id, users, last>>

\* add_team_member: the existing_member query
at_read_existing(r) ==
    /\ sessions[r].pc = "at_existing"
    /\ sessions' = [sessions EXCEPT ![r] =
           IF existing_member(sessions[r].project_id, sessions[r].user_id) # {} THEN Idle
           ELSE [@ EXCEPT !.pc = "at_insert"]]
    /\ UNCHANGED <<projects, team_members, tasks, next_project_id, next_task_id, users, last>>

\* add_team_member: db.add(db_team_member); db.commit()
at_insert(r) ==
    /\ sessions[r].pc = "at_insert"
    /\ team_members' = InsertMember(team_members,
           TeamMember(sessions[r].project_id, sessions[r].user_id, sessions[r].role))
    /\ sessions' = [sessions EXCEPT ![r] = Idle]
    /\ UNCHANGED <<projects, tasks, next_project_id, next_task_id, users, last>>

\* the request dies between two statements (the process is killed, the connection
\* drops): get_db closes the session, what was committed stays
crash(r) ==
    /\ sessions[r].pc # "idle"
    /\ sessions' = [sessions EXCEPT ![r] = Idle]
    /\ UNCHANGED <<projects, team_members, tasks, next_project_id, next_task_id, users, last>>

\* --------------------------------------------------------------- transport
\* the endpoint hands the handler's answer back to the client (src/main.py)
respond ==
    /\ last.op # "none"
    /\ last' = NoCall
    /\ UNCHANGED <<projects, team_members, tasks, next_project_id, next_task_id, sessions, users>>

\* the answer of GET / PUT / DELETE /tasks/{task_id} to what the handler returned
TaskNotFound == [status_code |-> 404, detail |-> "Task not found"]
task_endpoint(result) ==
    IF result = "None" \/ result = "False" THEN TaskNotFound
    ELSE [status_code |-> 200, detail |-> ""]

\* ------------------------------------------------------------ specifications
\* one request after the other: a call is taken when the previous one is answered
Ready == last.op = "none"

Next ==
    \/ Ready /\ \E u \in Users, n \in ProjectNames : create_project(u, n)
    \/ Ready /\ \E p \in ProjectIds, u \in Users, body \in ProjectBodies :
                    update_project(p, ProjectUpdate(body), u)
    \/ Ready /\ \E p \in ProjectIds, u \in Users : delete_project(p, u)
    \/ Ready /\ \E p \in ProjectIds, t \in Users, r \in Roles, u \in Users :
                    add_team_member(p, t, r, u)
    \/ Ready /\ \E p \in ProjectIds, t \in Users, u \in Users : remove_team_member(p, t, u)
    \/ Ready /\ \E p \in ProjectIds, u \in Users : read_project(p, u)
    \/ Ready /\ \E p \in ProjectIds, u \in Users : read_project_with_team(p, u)
    \/ Ready /\ \E p \in ProjectIds, u \in Users : read_team_members(p, u)
    \/ Ready /\ \E u \in Users : read_projects(u)
    \/ respond

Spec == Init /\ [][Next]_vars

TaskNext ==
    \/ Ready /\ \E u \in Users, t \in TaskPayloads : create_task(t, u)
    \/ Ready /\ \E i \in TaskIds, u \in Users, body \in TaskBodies :
                    update_task(i, TaskUpdate(body), u)
    \/ Ready /\ \E i \in TaskIds, u \in Users : delete_task(i, u)
    \/ Ready /\ \E i \in TaskIds, u \in Users : read_task(i, u)
    \/ Ready /\ \E u \in Users : read_tasks(u)
    \/ respond

TaskSpec == Init /\ [][TaskNext]_vars

MixNext ==
    \/ Ready /\ \E u \in MixUsers, n \in ProjectNames : create_project(u, n)
    \/ Ready /\ \E p \in ProjectIds, u \in MixUsers, body \in MixProjectBodies :
                    update_project(p, ProjectUpdate(body), u)
    \/ Ready /\ \E p \in ProjectIds, u \in MixUsers : delete_project(p, u)
    \/ Ready /\ \E p \in ProjectIds, t \in MixUsers, r \in ConcRoles, u \in MixUsers :
                    add_team_member(p, t, r, u)
    \/ Ready /\ \E p \in ProjectIds, t \in MixUsers, u \in MixUsers :
                    remove_team_member(p, t, u)
    \/ Ready /\ \E p \in ProjectIds, u \in MixUsers : read_project(p, u)
    \/ Ready /\ \E p \in ProjectIds, u \in MixUsers : read_project_with_team(p, u)
    \/ Ready /\ \E p \in ProjectIds, u \in MixUsers : read_team_members(p, u)
    \/ Ready /\ \E u \in MixUsers : read_projects(u)
    \/ Ready /\ \E u \in MixUsers, t \in MixTaskPayloads : create_task(t, u)
    \/ Ready /\ \E i \in TaskIds, u \in MixUsers, body \in MixTaskBodies :
                    update_task(i, TaskUpdate(body), u)
    \/ Ready /\ \E i \in TaskIds, u \in MixUsers : delete_task(i, u)
    \/ Ready /\ \E i \in TaskIds, u \in MixUsers : read_task(i, u)
    \/ Ready /\ \E u \in MixUsers : read_tasks(u)
    \/ Ready /\ read_system_overview
    \/ respond

MixSpec == Init /\ [][MixNext]_vars

AuthNext ==
    \/ Ready /\ \E user \in UserCreates : register_user(user)
    \/ Ready /\ \E user \in UserLogins : login_user(user)
    \/ Ready /\ \E u \in DOMAIN users : deactivate_user(u)
    \/ respond

AuthSpec == Init /\ [][AuthNext]_vars

ConcNext ==
    \/ \E r \in Reqs, u \in Users, n \in ProjectNames : cp_insert_project(r, u, n)
    \/ \E r \in Reqs : cp_insert_member(r)
    \/ \E r \in Reqs, p \in ProjectIds, t \in Users, role \in ConcRoles, u \in Users :
           at_read_project(r, p, t, role, u)
    \/ \E r \in Reqs : at_read_requester(r)
    \/ \E r \in Reqs : at_read_existing(r)
    \/ \E r \in Reqs : at_insert(r)
    \/ \E r \in Reqs : crash(r)

ConcSpec == Init /\ [][ConcNext]_vars

\* the User table after "ann" and "bob" have registered
ReportUsers ==
    (1 :> [email |-> "a@x.com", username |-> "ann",
           hashed_password |-> get_password_hash("pw1"), is_active |-> DefaultIsActive])
    @@ (2 :> [email |-> "b@x.com", username |-> "bob",
              hashed_password |-> get_password_hash("pw1"), is_active |-> DefaultIsActive])

\* the Project table after user 1 has created "Alpha"
ReportProjects ==
    1 :> [owner_id |-> 1, name |-> "Alpha", status |-> DefaultProjectStatus]

\* a store left by register_user, create_project, create_task and update_task calls
ReportInit ==
    /\ users \in {[i \in {} |-> NoId], ReportUsers}
    /\ projects \in {[i \in {} |-> NoId]} \cup (IF users = ReportUsers
                                                THEN {ReportProjects} ELSE {})
    /\ team_members =
           SetToBag({TeamMember(p, projects[p].owner_id, "owner") : p \in DOMAIN projects})
    /\ \E n \in 0..MaxReportTasks :
           tasks \in [1..n -> [title : {"t1"}, status : ReportStatuses,
                               priority : ReportPriorities,
                               project_id : {NoId} \cup DOMAIN projects,
                               assigned_user_id : DOMAIN users]]
    /\ next_project_id = MaxId(DOMAIN projects) + 1
    /\ next_task_id = MaxId(DOMAIN tasks) + 1
    /\ sessions = [r \in Reqs |-> Idle]
    /\ last = NoCall

ReportNext ==
    \/ Ready /\ read_system_overview
    \/ Ready /\ read_user_task_statistics
    \/ Ready /\ read_project_task_statistics
    \/ Ready /\ read_task_priority_distribution
    \/ Ready /\ read_task_status_distribution
    \/ respond

ReportSpec == ReportInit /\ [][ReportNext]_vars

\* the statements of create_project and add_team_member of two users, interleaved
\* with whole delete_project, remove_team_member and get_project requests
RaceNext ==
    \/ \E r \in Reqs, u \in MixUsers, n \in ProjectNames : cp_insert_project(r, u, n)
    \/ \E r \in Reqs : cp_insert_member(r)
    \/ \E r \in Reqs, p \in ProjectIds, t \in MixUsers, role \in ConcRoles, u \in MixUsers :
           at_read_project(r, p, t, role, u)
    \/ \E r \in Reqs : at_read_requester(r)
    \/ \E r \in Reqs : at_read_existing(r)
    \/ \E r \in Reqs : at_insert(r)
    \/ \E r \in Reqs : crash(r)
    \/ Ready /\ \E p \in ProjectIds, u \in MixUsers : delete_project(p, u)
    \/ Ready /\ \E p \in ProjectIds, t \in MixUsers, u \in MixUsers :
                    remove_team_member(p, t, u)
    \/ Ready /\ \E p \in ProjectIds, u \in MixUsers : read_project(p, u)
    \/ respond

RaceSpec == Init /\ [][RaceNext]_vars

\* ------------------------------------------------------------------ claims
\* what the claims say of a recorded call, in the tables as the call found them
PreOwner(p) == last.pre.projects[p].owner_id
PreRows(p, u) ==
    {m \in BagToSet(last.pre.team_members) : m.project_id = p /\ m.user_id = u}
\* the requester is the project's owner_id or holds a row with role owner or admin
PreMayManage(p, u) ==
    /\ p \in DOMAIN last.pre.projects
    /\ \/ PreOwner(p) = u
       \/ \E m \in PreRows(p, u) : m.role = "owner" \/ m.role = "admin"
Succeeded == last.result = "ok" \/ last.result = "True"
Denied == last.result = "None" \/ last.result = "False"
\* the number of TeamMember rows of a (project, user) pair
PairCount(p, u) ==
    BagCardinality([m \in MemberRows(p, u) |-> team_members[m]])

\* C1: every existing project has exactly one TeamMember row with role "owner",
\* and that row's user is the project's owner_id.
C1_ExactlyOneOwnerRow ==
    \A p \in DOMAIN projects :
        LET owners == {m \in TeamRows(p) : m.role = "owner"} IN
        /\ owners = {TeamMember(p, projects[p].owner_id, "owner")}
        /\ \A m \in owners : CopiesIn(m, team_members) = 1

\* C2: no state shows a Project row without its owner TeamMember row
\* {project, owner_id, "owner"}: create_project is atomic to other requests and to a crash.
C2_NoHalfCreatedProject ==
    \A p \in DOMAIN projects :
        BagIn(TeamMember(p, projects[p].owner_id, "owner"), team_members)

\* C3: there is at most one TeamMember row per (project, user) pair, whatever the
\* interleaving of add_team_member and create_project requests.
C3_OneRowPerPair ==
    \A p \in ProjectIds, u \in Users : PairCount(p, u) <= 1

\* C4: an authorized add_team_member of a user without a row succeeds and leaves that
\* user with a row; an authorized add_team_member of a user who has a row (the call
\* that follows) returns None, creates no row and leaves the row's role as it was,
\* whatever role it names.
C4_SecondAddDenied ==
    (last.op = "add_team_member" /\ PreMayManage(last.id, last.actor)) =>
        IF PreRows(last.id, last.target) = {}
        THEN /\ last.result = "ok"
             /\ team_members = last.pre.team_members
                    (+) SetToBag({TeamMember(last.id, last.target, last.role)})
             /\ PairCount(last.id, last.target) = 1
        ELSE /\ last.result = "None"
             /\ team_members = last.pre.team_members

\* C4 witness: an authorized requester adds, under another role, a user that an
\* earlier add_team_member made a member, and is denied.
C4_Witness ==
    /\ last.op = "add_team_member"
    /\ PreMayManage(last.id, last.actor)
    /\ last.target # PreOwner(last.id)
    /\ \E m \in PreRows(last.id, last.target) : m.role # last.role
    /\ last.result = "None"

\* C5: remove_team_member of the project's owner_id returns False and removes no
\* row, whoever asks.
C5_OwnerNeverRemoved ==
    (/\ last.op = "remove_team_member"
     /\ last.id \in DOMAIN last.pre.projects
     /\ last.target = PreOwner(last.id)) =>
        /\ last.result = "False"
        /\ team_members = last.pre.team_members

\* C5 witness: a member with role admin asks to remove the owner and is refused.
C5_Witness ==
    /\ last.op = "remove_team_member"
    /\ last.id \in DOMAIN last.pre.projects
    /\ last.target = PreOwner(last.id)
    /\ last.actor # PreOwner(last.id)
    /\ \E m \in PreRows(last.id, last.actor) : m.role = "admin"
    /\ last.result = "False"

\* C6: add_team_member and remove_team_member change the TeamMember table only for a
\* requester who is the owner_id or holds a row with role owner or admin; any other
\* requester is denied and the table is as it was.
C6_OnlyManagersChangeTeam ==
    (last.op = "add_team_member" \/ last.op = "remove_team_member") =>
        /\ ~PreMayManage(last.id, last.actor) =>
               (Denied /\ team_members = last.pre.team_members)
        /\ team_members # last.pre.team_members =>
               (Succeeded /\ PreMayManage(last.id, last.actor))

\* C6 witness: a plain member asks to remove another member and is denied.
C6_Witness ==
    /\ last.op = "remove_team_member"
    /\ last.id \in DOMAIN last.pre.projects
    /\ PreRows(last.id, last.actor) = {TeamMember(last.id, last.actor, "member")}
    /\ PreRows(last.id, last.target) # {}
    /\ last.target # PreOwner(last.id)
    /\ last.result = "False"

\* C7: update_project and delete_project succeed exactly for the project's owner_id;
\* for any other actor they return None / False and the project is unchanged.
C7_OnlyOwnerWritesProject ==
    (last.op = "update_project" \/ last.op = "delete_project") =>
        LET owner == /\ last.id \in DOMAIN last.pre.projects
                     /\ PreOwner(last.id) = last.actor IN
        /\ Succeeded <=> owner
        /\ ~owner => (Denied /\ projects = last.pre.projects
                             /\ team_members = last.pre.team_members)

\* C7 witness: a member whose role string is "owner" asks to update the project and
\* gets None.
C7_Witness ==
    /\ last.op = "update_project"
    /\ last.id \in DOMAIN last.pre.projects
    /\ last.actor # PreOwner(last.id)
    /\ \E m \in PreRows(last.id, last.actor) : m.role = "owner"
    /\ last.result = "None"

\* C8: for an existing project P and a user U, get_project, get_project_with_team and
\* get_team_members hand back data exactly when U is P's owner_id or a TeamMember row
\* (P, U) exists, and None otherwise.
C8_ReadAccess ==
    /\ \A p \in DOMAIN projects, u \in Users :
           LET may == \/ projects[p].owner_id = u
                      \/ \E m \in BagToSet(team_members) :
                             m.project_id = p /\ m.user_id = u IN
           /\ get_project(p, u) # {} <=> may
           /\ get_project_with_team(p, u).result # "None" <=> may
           /\ get_team_members(p, u).result # "None" <=> may
    /\ (/\ last.op \in {"get_project", "get_project_with_team", "get_team_members"}
        /\ last.id \in DOMAIN last.pre.projects) =>
           (last.result = "ok" <=>
                (PreOwner(last.id) = last.actor \/ PreRows(last.id, last.actor) # {}))

\* C8 witness: a user who is neither owner nor member asks for the team of an
\* existing project and gets None.
C8_Witness ==
    /\ last.op = "get_team_members"
    /\ last.id \in DOMAIN last.pre.projects
    /\ last.actor # PreOwner(last.id)
    /\ PreRows(last.id, last.actor) = {}
    /\ Cardinality(BagToSet(last.pre.team_members)) >= 2
    /\ last.result = "None"

\* C9: get_task, update_task and delete_task agree: each succeeds exactly when the
\* task exists and is assigned to the calling user.
C9_TaskAccessAgrees ==
    (last.op \in {"get_task", "update_task", "delete_task"}) =>
        (Succeeded <=> (/\ last.id \in DOMAIN last.pre.tasks
                        /\ last.pre.tasks[last.id].assigned_user_id = last.actor))

\* C9 witness: delete_task on an existing task of another user returns False.
C9_Witness ==
    /\ last.op = "delete_task"
    /\ last.id \in DOMAIN last.pre.tasks
    /\ last.pre.tasks[last.id].assigned_user_id # last.actor
    /\ last.result = "False"

\* C10: a task call of user V hands back no task of another user and leaves the set
\* and the fields of every other user's tasks as they were.
C10_OtherUsersTasksUntouched ==
    (last.op \in {"create_task", "update_task", "delete_task", "get_task", "get_tasks"}) =>
        /\ \A t \in last.rows :
               t \in DOMAIN tasks => tasks[t].assigned_user_id = last.actor
        /\ \A t \in last.rows :
               t \in DOMAIN last.pre.tasks => last.pre.tasks[t].assigned_user_id = last.actor
        /\ \A u \in Users \ {last.actor} :
               /\ {t \in DOMAIN tasks : tasks[t].assigned_user_id = u}
                      = {t \in DOMAIN last.pre.tasks :
                             last.pre.tasks[t].assigned_user_id = u}
               /\ \A t \in DOMAIN last.pre.tasks :
                      last.pre.tasks[t].assigned_user_id = u => tasks[t] = last.pre.tasks[t]

\* C10 witness: a user updates their own task while another user holds a task.
C10_Witness ==
    /\ last.op = "update_task"
    /\ last.result = "ok"
    /\ tasks # last.pre.tasks
    /\ \E t \in DOMAIN last.pre.tasks : last.pre.tasks[t].assigned_user_id # last.actor
\* C17: a project's owner_id is fixed at create_project: no call, whatever its patch,
\* changes the owner_id of a project that exists before and after it.
C17_OwnerIdImmutable ==
    last.op # "none" =>
        \A p \in DOMAIN projects \cap DOMAIN last.pre.projects :
            projects[p].owner_id = PreOwner(p)
\* the owner has patched the project and the row has changed
C17_Witness ==
    /\ last.op = "update_project"
    /\ last.result = "ok"
    /\ projects # last.pre.projects

\* C12: a task is assigned to the user whose create_task made it, whatever the
\* payload names, and no later call, whatever its patch, assigns it to another user.
C12_AssigneeIsCreator ==
    last.op # "none" =>
        \A t \in DOMAIN tasks :
            IF t \in DOMAIN last.pre.tasks
            THEN tasks[t].assigned_user_id = last.pre.tasks[t].assigned_user_id
            ELSE /\ last.op = "create_task"
                 /\ t = last.id
                 /\ tasks[t].assigned_user_id = last.actor
\* the assignee has patched a task and the row has changed
C12_Witness ==
    /\ last.op = "update_task"
    /\ last.result = "ok"
    /\ tasks # last.pre.tasks
    /\ tasks[last.id].assigned_user_id = last.actor

\* C15: a successful update_task gives the fields of the patch the patch's values and
\* leaves the task's other fields, its assignee, every other task and the other
\* tables as they were.
C15_UpdateFrame ==
    (last.op = "update_task" /\ last.result = "ok") =>
        /\ DOMAIN tasks = DOMAIN last.pre.tasks
        /\ \A f \in DOMAIN tasks[last.id] :
               tasks[last.id][f] = IF f \in DOMAIN last.patch THEN last.patch[f]
                                   ELSE last.pre.tasks[last.id][f]
        /\ tasks[last.id].assigned_user_id = last.pre.tasks[last.id].assigned_user_id
        /\ \A t \in DOMAIN tasks \ {last.id} : tasks[t] = last.pre.tasks[t]
        /\ projects = last.pre.projects
        /\ team_members = last.pre.team_members
\* a patch of some but not all fields has been applied while a second task exists
C15_Witness ==
    /\ last.op = "update_task"
    /\ last.result = "ok"
    /\ DOMAIN last.patch # {}
    /\ tasks # last.pre.tasks
    /\ DOMAIN tasks \ {last.id} # {}

\* C14: get_task, update_task and delete_task answer a user the same way for a task id
\* that does not exist and for one assigned to another user: the handler's empty
\* result, which the endpoint turns into 404 "Task not found", and no table changes.
C14_NoEnumeration ==
    (/\ last.op \in {"get_task", "update_task", "delete_task"}
     /\ ~(/\ last.id \in DOMAIN last.pre.tasks
          /\ last.pre.tasks[last.id].assigned_user_id = last.actor)) =>
        /\ last.result = IF last.op = "delete_task" THEN "False" ELSE "None"
        /\ last.rows = {}
        /\ task_endpoint(last.result) = TaskNotFound
        /\ Tables = last.pre
\* a user was refused another user's task while some task id was not in use
C14_Witness ==
    /\ last.op = "update_task"
    /\ last.id \in DOMAIN last.pre.tasks
    /\ last.pre.tasks[last.id].assigned_user_id # last.actor
    /\ task_endpoint(last.result) = TaskNotFound
    /\ TaskIds \ DOMAIN tasks # {}

DeletedTaskIds == {t \in TaskIds : t < next_task_id /\ t \notin DOMAIN tasks}

\* C16 as stated: a task id is never visible again once its task is deleted.
C16_DeletedIdNeverVisibleAgain ==
    [][\A t \in DeletedTaskIds : t \notin DOMAIN tasks']_vars

\* C16: delete_task returning True leaves no row under the id; a call of get_task,
\* update_task or delete_task on a deleted id finds nothing, raises nothing and
\* changes no table; the id is visible again only when a later create_task is given
\* it for a new task.
C16_DeletedUntilIdReused ==
    [][/\ (last'.op = "delete_task" /\ last'.result = "True") =>
              last'.id \notin DOMAIN tasks'
       /\ \A t \in DeletedTaskIds :
              \/ /\ t \notin DOMAIN tasks'
                 /\ (last'.op \in {"get_task", "update_task", "delete_task"}
                        /\ last'.id = t) =>
                        /\ last'.result = IF last'.op = "delete_task" THEN "False"
                                          ELSE "None"
                        /\ tasks' = tasks
              \/ /\ last'.op = "create_task"
                 /\ last'.id = t]_vars
\* a get_task on the id of a deleted task has found nothing
C16_Witness ==
    /\ last.op = "get_task"
    /\ last.id \in DeletedTaskIds
    /\ last.result = "None"

\* C20: every read and every refused write leaves the User, Project, TeamMember
\* and Task tables as the call found them.
C20_ReadsAndRefusalsChangeNothing ==
    (\/ last.op \in {"get_task", "get_tasks", "get_project", "get_projects",
                      "get_project_with_team", "get_team_members", "get_system_overview"}
     \/ (/\ last.op \in {"update_task", "delete_task", "update_project", "delete_project",
                          "add_team_member", "remove_team_member"}
         /\ Denied)) =>
        Tables = last.pre
\* a member who may not manage the team was refused an add while a task exists
C20_Witness ==
    /\ last.op = "add_team_member"
    /\ Denied
    /\ last.id \in DOMAIN projects
    /\ DOMAIN tasks # {}
    /\ team_members # EmptyBag

\* C11: access to a task follows its assignee and not the membership of its project.
\* When remove_team_member has taken a user off a project, the user's tasks filed under
\* that project are still there and get_task still finds them; a get_task, update_task
\* or delete_task by the assignee succeeds though the assignee holds no row for the
\* task's project; the same call by a user who holds a row for the project and is
\* not the assignee finds nothing and changes nothing.
C11_TaskAccessIgnoresMembership ==
    /\ (last.op = "remove_team_member" /\ last.result = "True") =>
           \A t \in DOMAIN last.pre.tasks :
               (/\ last.pre.tasks[t].assigned_user_id = last.target
                /\ last.pre.tasks[t].project_id = last.id) =>
                   /\ t \in DOMAIN tasks
                   /\ tasks[t] = last.pre.tasks[t]
                   /\ get_task(t, last.target) = {t}
    /\ (/\ last.op \in {"get_task", "update_task", "delete_task"}
        /\ last.id \in DOMAIN last.pre.tasks) =>
           /\ (/\ last.pre.tasks[last.id].assigned_user_id = last.actor
               /\ PreRows(last.pre.tasks[last.id].project_id, last.actor) = {}) =>
                  Succeeded
           /\ (/\ last.pre.tasks[last.id].assigned_user_id # last.actor
               /\ PreRows(last.pre.tasks[last.id].project_id, last.actor) # {}) =>
                  (Denied /\ tasks = last.pre.tasks)
\* a user with a task filed under a project has just been taken off that project
C11_Witness ==
    /\ last.op = "remove_team_member"
    /\ last.result = "True"
    /\ \E t \in DOMAIN tasks :
           /\ tasks[t].assigned_user_id = last.target
           /\ tasks[t].project_id = last.id
    /\ MemberRows(last.id, last.target) = {}

\* C18: register_user refuses, and adds no user, when a user holds the body's email
\* (looked at first) or its username; otherwise it adds the user; so no two users
\* ever share an email or a username.
C18_RegisterKeepsUsersUnique ==
    /\ \A a, b \in DOMAIN users :
           a # b => /\ users[a].email # users[b].email
                    /\ users[a].username # users[b].username
    /\ last.op = "register_user" =>
           IF \E u \in DOMAIN last.pre.users : last.pre.users[u].email = last.body.email
           THEN /\ last.result = "Email already registered"
                /\ users = last.pre.users
           ELSE IF \E u \in DOMAIN last.pre.users :
                      last.pre.users[u].username = last.body.username
           THEN /\ last.result = "Username already taken"
                /\ users = last.pre.users
           ELSE /\ last.result = "ok"
                /\ DOMAIN users = DOMAIN last.pre.users \cup {last.id}
                /\ last.id \notin DOMAIN last.pre.users
\* a body with one user's email and another user's username was refused for the email
C18_Witness ==
    /\ last.op = "register_user"
    /\ last.result = "Email already registered"
    /\ \E a, b \in DOMAIN users :
           /\ a # b
           /\ users[a].email = last.body.email
           /\ users[b].username = last.body.username

\* the users holding the email of the login body, and those of them whose stored
\* hash is the hash of the body's password
LoginUsers == {u \in DOMAIN last.pre.users : last.pre.users[u].email = last.body.email}
LoginMatches ==
    {u \in LoginUsers :
        last.pre.users[u].hashed_password = get_password_hash(last.body.password)}

\* C19: login_user hands out a token exactly when the email's user is active and the
\* password matches; a matching password on an inactive account gets "Inactive
\* user", an answer other than the one for bad credentials; an unknown email and a
\* wrong password get the same "Incorrect email or password".
C19_LoginOutcomes ==
    last.op = "login_user" =>
        /\ users = last.pre.users
        /\ IF LoginMatches = {}
           THEN /\ last.result = "Incorrect email or password"
                /\ last.status_code = 401
           ELSE IF \E u \in LoginMatches : ~last.pre.users[u].is_active
           THEN /\ last.result = "Inactive user"
                /\ last.status_code = 400
           ELSE /\ last.result = "ok"
                /\ last.id \in LoginMatches
\* an inactive account was refused with its own answer while another account exists
C19_Witness ==
    /\ last.op = "login_user"
    /\ last.result = "Inactive user"
    /\ LoginMatches # {}
    /\ DOMAIN users \ LoginUsers # {}

\* C25: every task with a project reference refers to an existing project.
C25_TaskProjectExists ==
    \A t \in DOMAIN tasks :
        tasks[t].project_id # NoId => tasks[t].project_id \in DOMAIN projects

\* C23: every TeamMember row refers to an existing project; a successful
\* delete_project leaves no row of the deleted project.
C23_MemberProjectExists ==
    \A m \in BagToSet(team_members) : m.project_id \in DOMAIN projects

\* C24: a successful remove_team_member revokes at once: in the state it leaves, the
\* removed user is refused by get_project, get_project_with_team and
\* get_team_members, the project is not among the user's get_projects, and the user
\* may not manage the team.
C24_RevocationImmediate ==
    [][(/\ last' # last
        /\ (last.op = "remove_team_member" /\ last.result = "True")') =>
           (/\ get_project(last.id, last.target) = {}
            /\ get_project_with_team(last.id, last.target).result = "None"
            /\ get_team_members(last.id, last.target).result = "None"
            /\ ~BagIn(last.id, get_projects(last.target))
            /\ ~may_manage_team(last.id, last.target))']_vars

\* the entries of the report a call returned: the overview itself, or the entry of
\* every user or project
RateEntries ==
    IF last.op = "get_system_overview" THEN {last.rows}
    ELSE IF last.op \in {"get_user_task_statistics", "get_project_task_statistics"}
    THEN {last.rows[k] : k \in DOMAIN last.rows}
    ELSE {}
\* the tasks of the store as the call found it that an entry of the report counts
CountedTasks(k) ==
    {t \in DOMAIN last.pre.tasks :
        \/ last.op = "get_system_overview"
        \/ last.op = "get_user_task_statistics" /\ last.pre.tasks[t].assigned_user_id = k
        \/ last.op = "get_project_task_statistics" /\ last.pre.tasks[t].project_id = k}
Distance(a, b) == IF a < b THEN b - a ELSE a - b

\* C21 as stated: with a total of 0 the completion_rate is 0, otherwise it is
\* completed / total * 100 (the model holds the rate in hundredths of a percent).
C21_RateIsExactQuotient ==
    \A e \in RateEntries :
        IF e.total_tasks = 0 THEN e.completion_rate = 0
        ELSE e.completion_rate * e.total_tasks = e.completed_tasks * 100 * 100

\* C21: the overview and every per-user and per-project entry count the tasks of the
\* store; with a total of 0 the completion_rate is 0, otherwise it is
\* completed / total * 100 rounded to two decimals.
C21_RateIsRoundedQuotient ==
    /\ last.op = "get_system_overview" =>
           /\ last.rows.total_tasks = Cardinality(CountedTasks(NoId))
           /\ last.rows.completed_tasks =
                  Cardinality({t \in CountedTasks(NoId) :
                                  last.pre.tasks[t].status = "completed"})
    /\ last.op \in {"get_user_task_statistics", "get_project_task_statistics"} =>
           /\ DOMAIN last.rows = IF last.op = "get_user_task_statistics"
                                 THEN DOMAIN last.pre.users ELSE DOMAIN last.pre.projects
           /\ \A k \in DOMAIN last.rows :
                  /\ last.rows[k].total_tasks = Cardinality(CountedTasks(k))
                  /\ last.rows[k].completed_tasks =
                         Cardinality({t \in CountedTasks(k) :
                                         last.pre.tasks[t].status = "completed"})
    /\ \A e \in RateEntries :
           IF e.total_tasks = 0 THEN e.completion_rate = 0
           ELSE 2 * Distance(e.completion_rate * e.total_tasks,
                             e.completed_tasks * 100 * 100) <= e.total_tasks
\* the statistics of a user with one task of three completed and of a user with none
C21_Witness ==
    /\ last.op = "get_user_task_statistics"
    /\ \E u, v \in DOMAIN last.rows :
           /\ last.rows[u].total_tasks = 3
           /\ last.rows[u].completed_tasks = 1
           /\ last.rows[v].total_tasks = 0
           /\ last.rows[v].completion_rate = 0

\* C22: the priority distribution has exactly the entries low, medium, high and
\* urgent, the status distribution exactly pending, in_progress, completed and
\* cancelled, each once and each with the number of tasks of that value, also when
\* the store holds no task.
C22_DistributionsComplete ==
    /\ last.op = "get_task_priority_distribution" =>
           /\ Len(last.rows) = 4
           /\ {last.rows[i].priority : i \in 1..Len(last.rows)} =
                  {"low", "medium", "high", "urgent"}
           /\ \A i \in 1..Len(last.rows) :
                  last.rows[i].count =
                      Cardinality({t \in DOMAIN last.pre.tasks :
                                      last.pre.tasks[t].priority = last.rows[i].priority})
    /\ last.op = "get_task_status_distribution" =>
           /\ Len(last.rows) = 4
           /\ {last.rows[i].status : i \in 1..Len(last.rows)} =
                  {"pending", "in_progress", "completed", "cancelled"}
           /\ \A i \in 1..Len(last.rows) :
                  last.rows[i].count =
                      Cardinality({t \in DOMAIN last.pre.tasks :
                                      last.pre.tasks[t].status = last.rows[i].status})
\* the priority distribution of the store without a task
C22_Witness ==
    /\ last.op = "get_task_priority_distribution"
    /\ DOMAIN last.pre.tasks = {}
    /\ Len(last.rows) = 4

====
